---- MODULE Spec2Model ----
(***************************************************************************)
(* Folder-to-tag plugin (main.ts / main.js): the folder -> tag derivation  *)
(* and the reconciliation of a note's frontmatter `tags` property on       *)
(* create, rename and the two bulk passes of the settings tab.             *)
(*                                                                         *)
(* A JavaScript string is a sequence of one-character strings, so that     *)
(* split, trim, join and concatenation are computed, not assumed.          *)
(***************************************************************************)
EXTENDS Integers, Sequences, FiniteSets, TLC

(***************************************************************************)
(* Bounds of the model.                                                    *)
(***************************************************************************)
\* Folders nest at most this deep in the vault.
MaxDepth == 2
\* A tags list a note starts with has at most this many entries.
MaxInitTags == 2
\* External stimuli (vault events, settings edits, button clicks) in a run that
\* starts from a note of any shape.
MaxEvents == 1
\* The same in a run that follows a note through a sequence of stimuli.
MaxEventsInSequence == 2
\* Notes in the vault whose bulk passes are followed, and the stimuli of such a run.
NumFiles == 2
MaxEventsInVault == 1
\* Folders nest at most this deep in the vault the tag derivation is followed in,
\* and the stimuli of such a run.
MaxDeriveDepth == 3
MaxEventsInDerive == 1

(***************************************************************************)
(* Strings.                                                                *)
(***************************************************************************)
Min(S) == CHOOSE x \in S : \A y \in S : x <= y

\* String.prototype.split with a one-character separator: "".split(",") is [""].
RECURSIVE Split(_, _)
Split(s, sep) ==
    LET at == {i \in 1..Len(s) : s[i] = sep}
    IN  IF at = {} THEN <<s>>
        ELSE <<SubSeq(s, 1, Min(at) - 1)>> \o Split(SubSeq(s, Min(at) + 1, Len(s)), sep)

\* Array.prototype.join.
RECURSIVE Join(_, _)
Join(parts, sep) ==
    IF parts = <<>> THEN <<>>
    ELSE IF Len(parts) = 1 THEN parts[1]
    ELSE parts[1] \o <<sep>> \o Join(Tail(parts), sep)

IsSpace(c) == c = " "

\* String.prototype.trim: strips the white space at both ends, none inside.
RECURSIVE TrimStart(_)
TrimStart(s) == IF s # <<>> /\ IsSpace(s[1]) THEN TrimStart(Tail(s)) ELSE s

RECURSIVE TrimEnd(_)
TrimEnd(s) ==
    IF s # <<>> /\ IsSpace(s[Len(s)]) THEN TrimEnd(SubSeq(s, 1, Len(s) - 1)) ELSE s

Trim(s) == TrimEnd(TrimStart(s))

\* Array.prototype.includes on an array of strings.
Includes(arr, t) == \E i \in 1..Len(arr) : arr[i] = t

\* Array.prototype.map(t => String(t).trim()); String(t) of a string is t.
RECURSIVE MapTrim(_)
MapTrim(arr) == IF arr = <<>> THEN <<>> ELSE <<Trim(arr[1])>> \o MapTrim(Tail(arr))

\* Array.prototype.filter(t => !drop.includes(t)).
RECURSIVE FilterNotIn(_, _)
FilterNotIn(arr, drop) ==
    IF arr = <<>> THEN <<>>
    ELSE (IF Includes(drop, arr[1]) THEN <<>> ELSE <<arr[1]>>) \o FilterNotIn(Tail(arr), drop)

\* A forEach that pushes every tag, without the includes test.
PushAll(arr, add) == arr \o add

\* A forEach that puts the missing tags at the head of the array (unshift).
RECURSIVE UnshiftMissing(_, _)
UnshiftMissing(arr, add) ==
    IF add = <<>> THEN arr
    ELSE UnshiftMissing(IF Includes(arr, add[1]) THEN arr ELSE <<add[1]>> \o arr, Tail(add))

\* add.forEach(t => { if (!arr.includes(t)) arr.push(t); })
RECURSIVE PushMissing(_, _)
PushMissing(arr, add) ==
    IF add = <<>> THEN arr
    ELSE PushMissing(IF Includes(arr, add[1]) THEN arr ELSE Append(arr, add[1]), Tail(add))

\* obsidian.normalizePath: runs of "/" collapse to one, leading and trailing "/"
\* are dropped, and the empty path becomes "/".
RECURSIVE CollapseSlashes(_)
CollapseSlashes(s) ==
    IF Len(s) < 2 THEN s
    ELSE IF s[1] = "/" /\ s[2] = "/" THEN CollapseSlashes(Tail(s))
    ELSE <<s[1]>> \o CollapseSlashes(Tail(s))

normalizePath(path) ==
    LET c == CollapseSlashes(path)
        a == IF c # <<>> /\ c[1] = "/" THEN Tail(c) ELSE c
        b == IF a # <<>> /\ a[Len(a)] = "/" THEN SubSeq(a, 1, Len(a) - 1) ELSE a
    IN  IF b = <<>> THEN <<"/">> ELSE b

(***************************************************************************)
(* Settings.                                                               *)
(***************************************************************************)
DEFAULT_SETTINGS == [folderDepth |-> "1", tagPrefix |-> <<>>, tagSuffix |-> <<>>]

\* The options of the folder-depth dropdown.
FolderDepths == {"1", "2split", "2single", "full"}
\* Texts typed into the prefix and suffix fields; the suffix "s " ends in a blank.
TagPrefixes == {<<>>, <<"p">>}
TagSuffixes == {<<>>, <<"s", " ">>}

AllSettings == [folderDepth : FolderDepths, tagPrefix : TagPrefixes, tagSuffix : TagSuffixes]

(***************************************************************************)
(* Tag Deriver.                                                            *)
(***************************************************************************)
\* The folder tags for the pieces of a path that count as its folders.
TagsOfParts(parts, s) ==
    LET n   == Len(parts)
        pre == s.tagPrefix
        suf == s.tagSuffix
    IN  IF parts = <<>> THEN <<>>
        ELSE CASE s.folderDepth = "1" -> <<pre \o parts[n] \o suf>>
               [] s.folderDepth = "2split" ->
                     IF n >= 2
                     THEN <<pre \o parts[n] \o suf, pre \o parts[n - 1] \o suf>>
                     ELSE <<pre \o parts[n] \o suf>>
               [] s.folderDepth = "2single" ->
                     IF n >= 2
                     THEN <<pre \o parts[n - 1] \o <<"/">> \o parts[n] \o suf>>
                     ELSE <<pre \o parts[n] \o suf>>
               [] s.folderDepth = "full" -> <<pre \o Join(parts, "/") \o suf>>
               [] OTHER -> <<>>

\* A deriver without slice(0, -1): the file name counts as a folder.
getFolderTagsFromPathKeepsFileName(path, s) ==
    TagsOfParts(Split(normalizePath(path), "/"), s)

\* A deriver whose "2split" case pushes the parent folder before the last one.
getFolderTagsFromPathParentFirst(path, s) ==
    LET pieces == Split(normalizePath(path), "/")
        parts  == SubSeq(pieces, 1, Len(pieces) - 1)
        n      == Len(parts)
    IN  IF s.folderDepth = "2split" /\ n >= 2
        THEN <<s.tagPrefix \o parts[n - 1] \o s.tagSuffix, s.tagPrefix \o parts[n] \o s.tagSuffix>>
        ELSE TagsOfParts(parts, s)

\* A deriver whose depth-2 cases have no else branch: no tag for a single folder.
getFolderTagsFromPathNoFallback(path, s) ==
    LET pieces == Split(normalizePath(path), "/")
        parts  == SubSeq(pieces, 1, Len(pieces) - 1)
    IN  IF s.folderDepth \in {"2split", "2single"} /\ Len(parts) < 2
        THEN <<>>
        ELSE TagsOfParts(parts, s)

getFolderTagsFromPath(path, s) ==
    LET normalized == normalizePath(path)
        pieces     == Split(normalized, "/")
        parts      == SubSeq(pieces, 1, Len(pieces) - 1)
        n          == Len(parts)
        pre        == s.tagPrefix
        suf        == s.tagSuffix
    IN  IF parts = <<>> THEN <<>>
        ELSE CASE s.folderDepth = "1" -> <<pre \o parts[n] \o suf>>
               [] s.folderDepth = "2split" ->
                     IF n >= 2
                     THEN <<pre \o parts[n] \o suf, pre \o parts[n - 1] \o suf>>
                     ELSE <<pre \o parts[n] \o suf>>
               [] s.folderDepth = "2single" ->
                     IF n >= 2
                     THEN <<pre \o parts[n - 1] \o <<"/">> \o parts[n] \o suf>>
                     ELSE <<pre \o parts[n] \o suf>>
               [] s.folderDepth = "full" -> <<pre \o Join(parts, "/") \o suf>>
               [] OTHER -> <<>>

\* getFolderTags(file): the tags of the file's current path.
getFolderTags(d, s) == getFolderTagsFromPath(d.path, s)

(***************************************************************************)
(* Notes.  A note is its vault path, its frontmatter (the `tags` property  *)
(* and the other properties) and its body.                                 *)
(***************************************************************************)
\* The value of the `tags` property: absent, a YAML list, a YAML string, or
\* a value of another type (a number, a mapping).
NoTags == [kind |-> "absent", list |-> <<>>, str |-> <<>>]
TagList(l) == [kind |-> "list", list |-> l, str |-> <<>>]
TagString(t) == [kind |-> "string", list |-> <<>>, str |-> t]
TagOther == [kind |-> "other", list |-> <<>>, str |-> <<>>]

\* The folder names of the vault and its folders, each a list of names from the root.
Folders == {<<"a">>, <<"b">>}

RECURSIVE SeqsUpTo(_, _)
SeqsUpTo(S, n) ==
    IF n = 0 THEN {<<>>}
    ELSE LET shorter == SeqsUpTo(S, n - 1)
         IN  shorter \cup {Append(q, x) : q \in shorter, x \in S}

VaultFolders == SeqsUpTo(Folders, MaxDepth)

\* The name of note f's file: "n1.md", "n2.md", ...
Digits == <<"1", "2", "3", "4", "5", "6", "7", "8", "9">>
FileName(f) == <<"n", Digits[f], ".", "m", "d">>

\* The vault path of note f in a folder: "a/b/n1.md", or "n1.md" at the root.
PathIn(folder, f) == Join(Append(folder, FileName(f)), "/")

VaultPaths(f) == {PathIn(folder, f) : folder \in VaultFolders}

\* A note.  blocks counts the frontmatter blocks at the head of the file; a
\* malformed note has a block the host cannot parse.  other stands for the
\* properties besides `tags` (the empty text: none) and body for the text below
\* the frontmatter, an inline `tags::` line included.
Note(path, blocks, malformed, tags, other, body) ==
    [path |-> path, extension |-> "md", blocks |-> blocks, malformed |-> malformed,
     tags |-> tags, other |-> other, body |-> body]

(***************************************************************************)
(* Tag Reconciler.                                                         *)
(***************************************************************************)
\* The frontmatter object the host hands to the mutator: {} for a note without a block.
frontMatterOf(d) == [tags |-> d.tags, other |-> d.other]

\* let existingTags = []; if ("tags" in yaml) { list: map(String(t).trim());
\* string: split(",").map(trim) }.  A value of another type leaves the list empty.
existingTagsOf(yaml) ==
    IF yaml.tags.kind = "list" THEN MapTrim(yaml.tags.list)
    ELSE IF yaml.tags.kind = "string" THEN MapTrim(Split(yaml.tags.str, ","))
    ELSE <<>>

\* The tags dropped as stale: those of oldPath under the settings read inside
\* the mutator, for a move or a rerun that was given an oldPath.  The absent
\* oldPath and the empty string are both falsy.
oldTagsOf(action, oldPath, s) ==
    IF action \in {"move", "rerun"} /\ oldPath # <<>>
    THEN getFolderTagsFromPath(oldPath, s)
    ELSE <<>>

\* A mutator that writes a string back where it read a string.
applyFolderTagMutatorSameKind(yaml, action, oldPath, folderTags, s) ==
    LET existingTags == existingTagsOf(yaml)
        kept         == FilterNotIn(existingTags, oldTagsOf(action, oldPath, s))
        tags         == PushMissing(kept, folderTags)
    IN  [yaml EXCEPT !.tags = IF yaml.tags.kind = "string"
                              THEN TagString(Join(tags, ","))
                              ELSE TagList(tags)]

\* The mutator applyFolderTag passes to processFrontMatter.
applyFolderTagMutator(yaml, action, oldPath, folderTags, s) ==
    LET existingTags == existingTagsOf(yaml)
        kept         == FilterNotIn(existingTags, oldTagsOf(action, oldPath, s))
    IN  [yaml EXCEPT !.tags = TagList(PushMissing(kept, folderTags))]

\* A mutator that assigns the filtered list even when it is empty.
removeFolderTagsMutatorKeepsKey(yaml, folderTags) ==
    [yaml EXCEPT !.tags = TagList(FilterNotIn(existingTagsOf(yaml), folderTags))]

\* A mutator that hands back an object holding the tags only.
removeFolderTagsMutatorDropsOthers(yaml, folderTags) ==
    LET existingTags == FilterNotIn(existingTagsOf(yaml), folderTags)
    IN  [tags |-> IF Len(existingTags) = 0 THEN NoTags ELSE TagList(existingTags),
         other |-> ""]

\* The mutator removeFolderTags passes to processFrontMatter.
removeFolderTagsMutator(yaml, folderTags) ==
    LET existingTags == FilterNotIn(existingTagsOf(yaml), folderTags)
    IN  IF Len(existingTags) = 0
        THEN [yaml EXCEPT !.tags = NoTags]
        ELSE [yaml EXCEPT !.tags = TagList(existingTags)]

\* The host writes the mutated object back as the note's one frontmatter block;
\* a note without a block gets one unless the object is still empty.
writeFrontMatter(d, yaml) ==
    [d EXCEPT !.tags = yaml.tags,
              !.other = yaml.other,
              !.blocks = IF d.blocks = 0 /\ yaml.tags.kind = "absent" /\ yaml.other = ""
                         THEN 0 ELSE 1]

\* An applyFolderTag that, on create, puts a new frontmatter block before the
\* note's text instead of mutating the block the note has.
applyFolderTagPrepends(d, action, oldPath, folderTags, s) ==
    IF action = "create"
    THEN [d EXCEPT !.blocks = @ + 1]
    ELSE writeFrontMatter(d, applyFolderTagMutator(frontMatterOf(d), action, oldPath,
                                                   folderTags, s))

\* What applyFolderTag makes of a note once processFrontMatter has run the mutator.
applyFolderTag(d, action, oldPath, folderTags, s) ==
    writeFrontMatter(d, applyFolderTagMutator(frontMatterOf(d), action, oldPath, folderTags, s))

\* What removeFolderTags makes of a note once processFrontMatter has run the mutator.
removeFolderTags(d, folderTags) ==
    writeFrontMatter(d, removeFolderTagsMutator(frontMatterOf(d), folderTags))

(***************************************************************************)
(* State.                                                                  *)
(***************************************************************************)
VARIABLES
    settings,   \* this.settings
    data,       \* the settings record the host persists (saveData / loadData)
    docs,       \* the vault: note id -> note
    call,       \* the applyFolderTag / removeFolderTags call awaiting processFrontMatter
    pass,       \* the bulk pass of the settings tab: its loop position and notices
    last,       \* history: the call that ended last, and the one before it
    left        \* external stimuli the run may still take

vars == <<settings, data, docs, call, pass, last, left>>

Files == DOMAIN docs

NoCall ==
    [active |-> FALSE, op |-> "none", file |-> 0, action |-> "none", oldPath |-> <<>>,
     folderTags |-> <<>>, origin |-> "none", cfg |-> DEFAULT_SETTINGS]

NoPass == [kind |-> "none", state |-> "idle", files |-> <<>>, idx |-> 0,
           results |-> <<>>, notices |-> {}]

NoDoc == Note(<<>>, 0, FALSE, NoTags, "", "")

NoPrev ==
    [op |-> "none", file |-> 0, action |-> "none", outcome |-> "none",
     before |-> NoDoc, after |-> NoDoc,
     folderTags |-> <<>>, oldTags |-> <<>>, cfgDone |-> DEFAULT_SETTINGS]

NoLast ==
    [op |-> "none", file |-> 0, action |-> "none", oldPath |-> <<>>, outcome |-> "none",
     before |-> NoDoc, after |-> NoDoc, folderTags |-> <<>>, oldTags |-> <<>>,
     cfgCall |-> DEFAULT_SETTINGS, cfgDone |-> DEFAULT_SETTINGS, prev |-> NoPrev]

\* The record of a call that has ended, the one before it kept in prev.
Ended(op, f, action, oldPath, outcome, before, after, folderTags, oldTags, cfgCall) ==
    [op |-> op, file |-> f, action |-> action, oldPath |-> oldPath, outcome |-> outcome,
     before |-> before, after |-> after, folderTags |-> folderTags, oldTags |-> oldTags,
     cfgCall |-> cfgCall, cfgDone |-> settings,
     prev |-> [op |-> last.op, file |-> last.file, action |-> last.action,
               outcome |-> last.outcome, before |-> last.before,
               after |-> last.after, folderTags |-> last.folderTags,
               oldTags |-> last.oldTags, cfgDone |-> last.cfgDone]]

(***************************************************************************)
(* Initial states: the plugin has loaded its settings; the vault holds     *)
(* notes of any shape.                                                     *)
(***************************************************************************)
\* Entries of a tags list: an unrelated tag, the same with a leading blank (a
\* quoted YAML scalar), and the folder tags the plugin wrote for the note's path
\* under the loaded settings.
SeqRange(q) == {q[i] : i \in 1..Len(q)}
InitTagPool(path, s) == {<<"u">>, <<" ", "u">>} \cup SeqRange(getFolderTagsFromPath(path, s))
InitLists(path, s) == SeqsUpTo(InitTagPool(path, s), MaxInitTags)
\* `tags: ""` and `tags: "u, <folder tag>"` (`tags: "u, a"` at the root).
InitStrings(path, s) ==
    LET own == getFolderTagsFromPath(path, s)
    IN  {<<>>, <<"u", ",", " ">> \o (IF own = <<>> THEN <<"a">> ELSE own[1])}
InitTagValues(path, s) ==
    {NoTags, TagOther}
    \cup {TagList(l) : l \in InitLists(path, s)}
    \cup {TagString(t) : t \in InitStrings(path, s)}

PlainBody == "text"
InlineBody == "tags:: u\ntext"
Bodies == {PlainBody, InlineBody}
OtherKeys == "aliases: [x]"

\* Any note: with a frontmatter block, without one, or with an unparsable one.
AnyNotes(f, s) ==
    UNION {{Note(p, 1, FALSE, t, OtherKeys, b) : t \in InitTagValues(p, s), b \in Bodies}
           : p \in VaultPaths(f)}
    \cup {Note(p, 0, FALSE, NoTags, "", b) : p \in VaultPaths(f), b \in Bodies}
    \cup {Note(p, 1, TRUE, NoTags, "", PlainBody) : p \in VaultPaths(f)}

\* A few notes: untagged, tagged by a user, tagged by the plugin, unparsable.
PlainNotes(f, s) ==
    UNION {{Note(p, 1, FALSE, t, OtherKeys, PlainBody) :
               t \in {NoTags, TagList(<<<<"u">>>> \o getFolderTagsFromPath(p, s))}}
           : p \in VaultPaths(f)}
    \cup {Note(PathIn(<<<<"a">>>>, f), 1, TRUE, NoTags, "", PlainBody)}

\* loadSettings: DEFAULT_SETTINGS overlaid with what loadData returns.
InitSettings ==
    /\ data \in {[saved |-> FALSE, value |-> DEFAULT_SETTINGS]}
                \cup {[saved |-> TRUE, value |-> v] : v \in AllSettings}
    /\ settings = data.value

InitRest ==
    /\ call = NoCall
    /\ pass = NoPass
    /\ last = NoLast

\* A vault of one note of any shape, and one stimulus.
Init ==
    /\ InitSettings
    /\ docs \in [{1} -> AnyNotes(1, settings)]
    /\ InitRest
    /\ left = MaxEvents

\* A vault of one note, followed through a sequence of stimuli.
InitSequence ==
    /\ InitSettings
    /\ docs \in [{1} -> PlainNotes(1, settings)]
    /\ InitRest
    /\ left = MaxEventsInSequence

\* The notes of a vault: at the root, tagged by the plugin in a folder,
\* untagged in a subfolder, unparsable.
VaultNotes(f, s) ==
    {Note(PathIn(<<>>, f), 1, FALSE, TagList(<<<<"u">>>>), OtherKeys, PlainBody),
     Note(PathIn(<<<<"a">>>>, f), 1, FALSE,
          TagList(<<<<"u">>>> \o getFolderTagsFromPath(PathIn(<<<<"a">>>>, f), s)),
          OtherKeys, PlainBody),
     Note(PathIn(<<<<"a">>, <<"b">>>>, f), 0, FALSE, NoTags, "", PlainBody),
     Note(PathIn(<<<<"a">>>>, f), 1, TRUE, NoTags, "", PlainBody)}

\* A vault of NumFiles notes.
InitVault ==
    /\ InitSettings
    /\ \E D \in [1..NumFiles -> UNION {VaultNotes(f, settings) : f \in 1..NumFiles}] :
          /\ \A f \in 1..NumFiles : D[f] \in VaultNotes(f, settings)
          /\ docs = D
    /\ InitRest
    /\ left = MaxEventsInVault

\* The notes of a vault with deeper folders: untagged, tagged by a user, without
\* a block, unparsable.
DeriveFolders == SeqsUpTo(Folders, MaxDeriveDepth)
DerivePaths(f) == {PathIn(folder, f) : folder \in DeriveFolders}
DeriveNotes(f) ==
    UNION {{Note(p, 1, FALSE, NoTags, OtherKeys, PlainBody),
            Note(p, 1, FALSE, TagList(<<<<"u">>>>), OtherKeys, PlainBody),
            Note(p, 0, FALSE, NoTags, "", PlainBody),
            Note(p, 1, TRUE, NoTags, "", PlainBody)} : p \in DerivePaths(f)}

\* A vault of one note in a folder of any depth, and one stimulus.
InitDerive ==
    /\ InitSettings
    /\ docs \in [{1} -> DeriveNotes(1)]
    /\ InitRest
    /\ left = MaxEventsInDerive

(***************************************************************************)
(* Settings tab: the three fields.  Each onChange assigns the field and    *)
(* saves the settings.                                                     *)
(***************************************************************************)
saveSettings(v) == [saved |-> TRUE, value |-> v]

ChangeFolderDepth(value) ==
    /\ left > 0
    /\ value # settings.folderDepth
    /\ settings' = [settings EXCEPT !.folderDepth = value]
    /\ data' = saveSettings(settings')
    /\ left' = left - 1
    /\ UNCHANGED <<docs, call, pass, last>>

ChangeTagPrefix(value) ==
    /\ left > 0
    /\ value # settings.tagPrefix
    /\ settings' = [settings EXCEPT !.tagPrefix = value]
    /\ data' = saveSettings(settings')
    /\ left' = left - 1
    /\ UNCHANGED <<docs, call, pass, last>>

ChangeTagSuffix(value) ==
    /\ left > 0
    /\ value # settings.tagSuffix
    /\ settings' = [settings EXCEPT !.tagSuffix = value]
    /\ data' = saveSettings(settings')
    /\ left' = left - 1
    /\ UNCHANGED <<docs, call, pass, last>>

(***************************************************************************)
(* applyFolderTag and removeFolderTags up to their await.                  *)
(***************************************************************************)
\* The call as it waits for processFrontMatter, its folderTags already computed.
Awaiting(op, f, action, oldPath, folderTags, origin) ==
    [active |-> TRUE, op |-> op, file |-> f, action |-> action, oldPath |-> oldPath,
     folderTags |-> folderTags, origin |-> origin, cfg |-> settings]

\* const folderTags = this.getFolderTags(file); if (!folderTags.length) return;
\* otherwise the call waits for processFrontMatter.  Handlers of vault events
\* start a call only when none is waiting: the host serializes them.
StartFromEvent(f, action, oldPath, pathNow) ==
    LET d          == [docs[f] EXCEPT !.path = pathNow]
        folderTags == getFolderTags(d, settings)
    IN  /\ ~call.active
        /\ docs' = [docs EXCEPT ![f] = d]
        /\ IF folderTags = <<>>
           THEN /\ call' = NoCall
                /\ last' = Ended("apply", f, action, oldPath, "returned", d, d,
                                 folderTags, <<>>, settings)
           ELSE /\ call' = Awaiting("apply", f, action, oldPath, folderTags, "event")
                /\ last' = last

\* vault.on("create"): a markdown file appears, or is indexed at start-up.
OnCreate(f) ==
    /\ left > 0
    /\ docs[f].extension = "md"
    /\ StartFromEvent(f, "create", <<>>, docs[f].path)
    /\ left' = left - 1
    /\ UNCHANGED <<settings, data, pass>>

\* vault.on("rename"): the vault has moved the file to newPath and reports oldPath.
OnRename(f, newPath) ==
    /\ left > 0
    /\ newPath # docs[f].path
    /\ docs[f].extension = "md"
    /\ StartFromEvent(f, "move", docs[f].path, newPath)
    /\ left' = left - 1
    /\ UNCHANGED <<settings, data, pass>>

(***************************************************************************)
(* The bulk passes of the settings tab.                                    *)
(***************************************************************************)
Notice(text, path) == [text |-> text, path |-> path]

\* vault.getMarkdownFiles(): the notes, in an order the host chooses.
IsListing(fs) ==
    /\ Len(fs) = Cardinality(Files)
    /\ {fs[i] : i \in 1..Len(fs)} = {f \in Files : docs[f].extension = "md"}

Listings == {fs \in SeqsUpTo(Files, Cardinality(Files)) : IsListing(fs)}

\* The outcome of one turn of the loop, for the file at the path it then had.
Turn(result, path) == [result |-> result, path |-> path]

\* The loop goes on to the next file.
Advance(p, result, path) ==
    [p EXCEPT !.idx = @ + 1, !.results = Append(@, Turn(result, path))]

\* A reapply loop without the try: the rejection leaves the loop and the handler.
reapplyThrow(p, path) ==
    [p EXCEPT !.state = "aborted", !.results = Append(@, Turn("failed", path))]

\* catch (e) { console.error(...); new Notice(`Failed to process: ${file.path}`); }
reapplyCatch(p, path) ==
    Advance([p EXCEPT !.notices = @ \cup {Notice("Failed to process: ", path)}],
            "failed", path)

\* The remove loop has no try: the rejection leaves the loop and the handler.
removeThrow(p, path) ==
    [p EXCEPT !.state = "aborted", !.results = Append(@, Turn("failed", path))]

ClickReapply ==
    /\ left > 0
    /\ pass.state # "running"
    /\ \E fs \in Listings :
          pass' = [kind |-> "reapply", state |-> "running", files |-> fs, idx |-> 1,
                   results |-> <<>>,
                   notices |-> {Notice("Updating all notes...", <<>>)}]
    /\ left' = left - 1
    /\ UNCHANGED <<settings, data, docs, call, last>>

ClickRemove ==
    /\ left > 0
    /\ pass.state # "running"
    /\ \E fs \in Listings :
          pass' = [kind |-> "removeAll", state |-> "running", files |-> fs, idx |-> 1,
                   results |-> <<>>,
                   notices |-> {Notice("Removing folder tags from all notes...", <<>>)}]
    /\ left' = left - 1
    /\ UNCHANGED <<settings, data, docs, call, last>>

\* One turn of either loop up to its await: applyFolderTag(file, "rerun") or
\* removeFolderTags(file).  A note without folder tags returns at once.
LoopNext ==
    /\ pass.state = "running"
    /\ pass.idx <= Len(pass.files)
    /\ ~call.active
    /\ LET f          == pass.files[pass.idx]
           op         == IF pass.kind = "reapply" THEN "apply" ELSE "remove"
           action     == IF pass.kind = "reapply" THEN "rerun" ELSE "none"
           folderTags == getFolderTags(docs[f], settings)
       IN  IF folderTags = <<>>
           THEN /\ call' = NoCall
                /\ pass' = Advance(pass, "returned", docs[f].path)
                /\ last' = Ended(op, f, action, <<>>, "returned", docs[f], docs[f],
                                 folderTags, <<>>, settings)
           ELSE /\ call' = Awaiting(op, f, action, <<>>, folderTags, pass.kind)
                /\ pass' = pass
                /\ last' = last
    /\ UNCHANGED <<settings, data, docs, left>>

\* After the last file: the completion notice.
LoopDone ==
    /\ pass.state = "running"
    /\ pass.idx > Len(pass.files)
    /\ pass' = [pass EXCEPT
                  !.state = "done",
                  !.notices = @ \cup {IF pass.kind = "reapply"
                                      THEN Notice("Folder tags updated for all notes!", <<>>)
                                      ELSE Notice("All folder tags removed!", <<>>)}]
    /\ UNCHANGED <<settings, data, docs, call, last, left>>

(***************************************************************************)
(* processFrontMatter: the host parses the note's frontmatter, runs the    *)
(* mutator and writes the note back, or rejects.                           *)
(***************************************************************************)
ProcessFrontMatter ==
    /\ call.active
    /\ ~docs[call.file].malformed
    /\ LET f      == call.file
           d      == docs[f]
           after  == IF call.op = "apply"
                     THEN applyFolderTag(d, call.action, call.oldPath, call.folderTags, settings)
                     ELSE removeFolderTags(d, call.folderTags)
           oldTags == IF call.op = "apply"
                      THEN oldTagsOf(call.action, call.oldPath, settings)
                      ELSE <<>>
       IN  /\ docs' = [docs EXCEPT ![f] = after]
           /\ last' = Ended(call.op, f, call.action, call.oldPath, "written", d, after,
                            call.folderTags, oldTags, call.cfg)
    /\ pass' = IF call.origin = "event" THEN pass ELSE Advance(pass, "written", docs[call.file].path)
    /\ call' = NoCall
    /\ UNCHANGED <<settings, data, left>>

\* The frontmatter cannot be parsed: the promise rejects and the note is not written.
ProcessFrontMatterRejects ==
    /\ call.active
    /\ docs[call.file].malformed
    /\ LET f == call.file
           d == docs[f]
       IN  /\ last' = Ended(call.op, f, call.action, call.oldPath, "rejected", d, d,
                            call.folderTags, <<>>, call.cfg)
           /\ pass' = CASE call.origin = "reapply" -> reapplyCatch(pass, d.path)
                        [] call.origin = "removeAll" -> removeThrow(pass, d.path)
                        [] OTHER -> pass
    /\ call' = NoCall
    /\ UNCHANGED <<settings, data, docs, left>>

Next ==
    \/ \E value \in FolderDepths : ChangeFolderDepth(value)
    \/ \E value \in TagPrefixes : ChangeTagPrefix(value)
    \/ \E value \in TagSuffixes : ChangeTagSuffix(value)
    \/ \E f \in Files : OnCreate(f)
    \/ \E f \in Files : \E newPath \in VaultPaths(f) : OnRename(f, newPath)
    \/ ClickReapply
    \/ ClickRemove
    \/ LoopNext
    \/ LoopDone
    \/ ProcessFrontMatter
    \/ ProcessFrontMatterRejects

\* The reconciliation of one note of any shape.
Spec == Init /\ [][Next]_vars

\* One note through a sequence of events.
SpecSequence == InitSequence /\ [][Next]_vars

\* The bulk passes over a vault of several notes.
SpecVault == InitVault /\ [][Next]_vars

\* The tag derivation over folders of any depth.
SpecDerive == InitDerive /\ [][Next]_vars

(***************************************************************************)
(* Vocabulary of the properties.                                           *)
(***************************************************************************)
\* The entries of a note's tags property as written in the note: the items of
\* a list, the comma-separated pieces of a string.
WrittenEntries(d) ==
    IF d.tags.kind = "list" THEN d.tags.list
    ELSE IF d.tags.kind = "string"
    THEN LET pieces == Split(d.tags.str, ",") IN [i \in 1..Len(pieces) |-> Trim(pieces[i])]
    ELSE <<>>

\* The same entries without the white space around them.
TrimmedEntries(d) == [i \in 1..Len(WrittenEntries(d)) |-> Trim(WrittenEntries(d)[i])]

\* The entries of q that are not in the set S, in their order.
Without(q, S) == LET Keep(x) == x \notin S IN SelectSeq(q, Keep)

Occurrences(q, t) == Cardinality({i \in 1..Len(q) : q[i] = t})

\* An applyFolderTag call has written the note.
Applied == last.op = "apply" /\ last.outcome = "written"
\* A removeFolderTags call has written the note.
Removed == last.op = "remove" /\ last.outcome = "written"

\* derive(currentPath, config) of the call that ended last.
DerivedNow == SeqRange(getFolderTagsFromPath(last.after.path, last.cfgCall))
\* derive(oldPath, config) of the call that ended last.
DerivedOld == SeqRange(getFolderTagsFromPath(last.oldPath, last.cfgCall))

\* A call of applyFolderTag or removeFolderTags has ended, in any way.
Called == last.op # "none"

\* The folders of the note of the call that ended last, from the vault root down.
FoldersOf(path, f) ==
    CHOOSE folder \in DeriveFolders \cup VaultFolders : PathIn(folder, f) = path
LastFolders == FoldersOf(last.after.path, last.file)

(***************************************************************************)
(* C1.                                                                     *)
(***************************************************************************)
\* C1 as stated: after any applyFolderTag call on a note in a folder, every
\* derived tag occurs exactly once in the note's tag list, whatever the list
\* held before.
C1_EachDerivedTagExactlyOnce ==
    Applied => \A t \in DerivedNow : Occurrences(WrittenEntries(last.after), t) = 1

\* C1 amended: after any applyFolderTag call that wrote a note in a folder,
\* every derived tag occurs at least once in the note's tag list, and exactly
\* once unless the list already held it more than once before the call.
C1_EachDerivedTagPresent ==
    Applied =>
        \A t \in DerivedNow :
            /\ Occurrences(WrittenEntries(last.after), t) >= 1
            /\ Occurrences(TrimmedEntries(last.before), t) <= 1
                   => Occurrences(WrittenEntries(last.after), t) = 1

\* A call added a derived tag to a list that held other entries only.
C1_Witness ==
    /\ Applied
    /\ Len(TrimmedEntries(last.before)) > 0
    /\ \E t \in DerivedNow :
          /\ Occurrences(TrimmedEntries(last.before), t) = 0
          /\ Occurrences(WrittenEntries(last.after), t) = 1

(***************************************************************************)
(* C2.                                                                     *)
(***************************************************************************)
\* C2 as stated: once a move from oldPath to newPath has been handled, the
\* note's tag list holds no tag of derive(oldPath) that is not also a tag of
\* derive(newPath), the new path being in a folder or at the root.
C2_NoStaleTagAfterMove ==
    (last.op = "apply" /\ last.action = "move" /\ last.outcome \in {"written", "returned"})
        => \A t \in DerivedOld \ DerivedNow : Occurrences(TrimmedEntries(last.after), t) = 0

(***************************************************************************)
(* C3.                                                                     *)
(***************************************************************************)
\* The shape C3 gives the list after a call: the entries `before` that are
\* neither stale nor derived are kept as they are and in their order, and the
\* derived tags the call added come after every entry that was there before.
KeptAndAppended(before, after, stale, derived) ==
    LET added == {t \in derived : t \notin SeqRange(Without(before, stale))}
    IN  /\ Without(after, stale \cup derived) = Without(before, stale \cup derived)
        /\ \A i, j \in 1..Len(after) :
              (after[i] \in added /\ after[j] \notin added) => j < i

\* C3 as stated: applyFolderTag keeps every existing tag that is neither stale
\* nor derived verbatim and in its relative order, and appends the derived tags
\* it adds after all pre-existing entries.
C3_OtherTagsVerbatim ==
    Applied => KeptAndAppended(WrittenEntries(last.before), WrittenEntries(last.after),
                               SeqRange(last.oldTags), SeqRange(last.folderTags))

\* C3 amended: applyFolderTag keeps every existing entry that, trimmed of the
\* white space around it, is neither stale nor derived, in its trimmed form and
\* in its relative order, and appends the derived tags it adds after all
\* pre-existing entries.
C3_OtherTagsTrimmed ==
    Applied => KeptAndAppended(TrimmedEntries(last.before), WrittenEntries(last.after),
                               SeqRange(last.oldTags), SeqRange(last.folderTags))

\* A move dropped a stale tag, kept an entry that had a blank before it, and
\* appended the new folder tag.
C3_Witness ==
    /\ Applied
    /\ last.action = "move"
    /\ \E i \in 1..Len(WrittenEntries(last.before)) :
          /\ WrittenEntries(last.before)[i] = <<" ", "u">>
          /\ Occurrences(WrittenEntries(last.after), <<"u">>) >= 1
    /\ \E t \in SeqRange(last.oldTags) : Occurrences(TrimmedEntries(last.before), t) > 0
    /\ Len(WrittenEntries(last.after)) > 1
    /\ WrittenEntries(last.after)[Len(WrittenEntries(last.after))] \in SeqRange(last.folderTags)

(***************************************************************************)
(* C4.                                                                     *)
(***************************************************************************)
\* The call that ended last repeated the call before it: applyFolderTag on the
\* same note as that call left it, with the same derived tags and no stale tags.
AppliedAgain ==
    /\ Applied
    /\ last.oldTags = <<>>
    /\ last.prev.op = "apply"
    /\ last.prev.outcome = "written"
    /\ last.prev.file = last.file
    /\ last.prev.oldTags = <<>>
    /\ last.prev.folderTags = last.folderTags
    /\ last.prev.after = last.before

\* C4 as stated: running applyFolderTag twice in succession with the same
\* derived tags and no stale tags leaves the tag list the first run left, and
\* adds no duplicate entry.
C4_ApplyTwiceIsApplyOnce ==
    AppliedAgain => WrittenEntries(last.after) = WrittenEntries(last.before)

(***************************************************************************)
(* C5.                                                                     *)
(***************************************************************************)
\* C5 as stated: a rerun takes derive(currentPath) as its stale tags, so it
\* removes every entry equal to a derived tag before it appends the derived
\* tags, and the derived tags end up as the last entries of the list.
C5_RerunPutsDerivedTagsLast ==
    (Applied /\ last.action = "rerun") =>
        LET after == WrittenEntries(last.after)
        IN  /\ SeqRange(last.oldTags) = DerivedNow
            /\ \A i, j \in 1..Len(after) :
                  (after[i] \in DerivedNow /\ after[j] \notin DerivedNow) => j < i

PassNotCutShort(kind, completion) ==
    pass.kind = kind =>
        /\ pass.state # "aborted"
        /\ pass.state = "done" =>
              /\ Len(pass.results) = Len(pass.files)
              /\ Notice(completion, <<>>) \in pass.notices

\* Each failure of the pass is reported for its note.
FailuresReported ==
    \A i \in 1..Len(pass.results) :
        pass.results[i].result = "failed"
            => Notice("Failed to process: ", pass.results[i].path) \in pass.notices

\* C7: in the bulk reapply pass a failure on one note does not abort the pass:
\* it is reported for that note, the loop stands at the next note with one
\* result for every note before it, and the pass, once done, has processed
\* every listed note and shown its completion notice.
C7_ReapplyPassSurvivesFailure ==
    pass.kind = "reapply" =>
        /\ PassNotCutShort("reapply", "Folder tags updated for all notes!")
        /\ FailuresReported
        /\ pass.state = "running" =>
              /\ pass.idx <= Len(pass.files) + 1
              /\ Len(pass.results) = pass.idx - 1

\* A reapply pass is done: its first note failed and a later one was written.
C7_Witness ==
    /\ pass.kind = "reapply"
    /\ pass.state = "done"
    /\ Len(pass.results) >= 2
    /\ pass.results[1].result = "failed"
    /\ \E i \in 2..Len(pass.results) : pass.results[i].result = "written"

\* C8 as stated: in the bulk remove-all pass a failure on one note does not
\* abort the pass: the remaining notes are still processed and the pass
\* reaches its completion notice.
C8_RemovePassSurvivesFailure ==
    PassNotCutShort("removeAll", "All folder tags removed!")

(***************************************************************************)
(* C9.                                                                     *)
(***************************************************************************)
\* C9: on a note that has both a frontmatter block and an inline tags line,
\* every action reconciles the block's tags only: the inline line is left as it
\* is and no second block is added.
C9_FrontmatterOnly ==
    (last.op # "none" /\ last.before.blocks >= 1 /\ last.before.body = InlineBody) =>
        /\ last.after.body = last.before.body
        /\ last.after.blocks = last.before.blocks
        /\ Applied => \A t \in DerivedNow : Occurrences(WrittenEntries(last.after), t) >= 1

\* A create wrote the folder tag into the block of a note with an inline tags line.
C9_Witness ==
    /\ Applied
    /\ last.action = "create"
    /\ last.before.blocks = 1
    /\ last.before.body = InlineBody
    /\ last.after.tags # last.before.tags

(***************************************************************************)
(* C10.                                                                    *)
(***************************************************************************)
\* The note shows its tags somewhere: in the tags property or in an inline line.
HasTagRepresentation(d) == d.tags.kind # "absent" \/ d.body = InlineBody

\* C10 as stated: applyFolderTag writes the list back in the representation it
\* read: a list stays a list, a comma-separated string stays a string, an
\* inline line stays an inline line; a frontmatter block with a tags list is
\* created only for a note without any tag representation.
C10_SameRepresentation ==
    Applied =>
        /\ last.before.tags.kind = "list" => last.after.tags.kind = "list"
        /\ last.before.tags.kind = "string" => last.after.tags.kind = "string"
        /\ (last.before.tags.kind = "absent" /\ last.before.body = InlineBody)
               => last.after.tags.kind = "absent"
        /\ last.after.blocks > last.before.blocks => ~HasTagRepresentation(last.before)

\* C10 amended: applyFolderTag always writes the resulting tags as a list under
\* the frontmatter tags key: a list stays a list, a comma-separated string (or
\* any other value, or an absent key) becomes a list; an inline tags line is
\* neither read nor rewritten, and a note without frontmatter gets a block with
\* the derived tags as its list, with or without an inline line in its body.
C10_AlwaysFrontmatterList ==
    Applied =>
        /\ last.after.tags.kind = "list"
        /\ last.after.blocks = 1
        /\ last.after.body = last.before.body
        /\ last.before.tags.kind = "string" =>
              Without(last.after.tags.list, DerivedNow \cup SeqRange(last.oldTags))
                  = Without(TrimmedEntries(last.before), DerivedNow \cup SeqRange(last.oldTags))
        /\ last.before.blocks = 0 => SeqRange(last.after.tags.list) = DerivedNow

\* applyFolderTag read a comma-separated string and wrote a list.
C10_Witness ==
    /\ Applied
    /\ last.before.tags.kind = "string"
    /\ last.before.tags.str # <<>>
    /\ last.after.tags.kind = "list"
    /\ Len(last.after.tags.list) >= 3

(***************************************************************************)
(* C11.                                                                    *)
(***************************************************************************)
\* C11: for a note at the root of the vault the derived list is empty under
\* every configuration, and applyFolderTag and removeFolderTags return without
\* a call to processFrontMatter and leave the note as it is.
C11_RootNoteIsLeftAlone ==
    /\ (Called /\ LastFolders = <<>>) =>
          /\ \A s \in AllSettings : getFolderTagsFromPath(last.after.path, s) = <<>>
          /\ last.folderTags = <<>>
          /\ last.outcome = "returned"
          /\ last.after = last.before
    /\ call.active => FoldersOf(docs[call.file].path, call.file) # <<>>

\* removeFolderTags returned on a tagged note at the root.
C11_Witness ==
    /\ last.op = "remove"
    /\ LastFolders = <<>>
    /\ last.outcome = "returned"
    /\ last.before.tags.kind = "list"
    /\ last.before.tags.list # <<>>

(***************************************************************************)
(* C12.                                                                    *)
(***************************************************************************)
\* C12: for a note in a folder the derived list is [prefix+last+suffix] in
\* mode "1" and [prefix+join(folders, "/")+suffix] in mode "full"; with two or
\* more folders it is [prefix+last+suffix, prefix+parent+suffix], in that
\* order, in mode "2split" and [prefix+parent+"/"+last+suffix] in "2single".
C12_DerivedTagsPerMode ==
    (Called /\ LastFolders # <<>>) =>
        LET n      == Len(LastFolders)
            pre    == last.cfgCall.tagPrefix
            suf    == last.cfgCall.tagSuffix
            mode   == last.cfgCall.folderDepth
            lastF  == LastFolders[n]
            parent == LastFolders[n - 1]
        IN  /\ mode = "1" => last.folderTags = <<pre \o lastF \o suf>>
            /\ mode = "full" => last.folderTags = <<pre \o Join(LastFolders, "/") \o suf>>
            /\ (mode = "2split" /\ n >= 2)
                  => last.folderTags = <<pre \o lastF \o suf, pre \o parent \o suf>>
            /\ (mode = "2single" /\ n >= 2)
                  => last.folderTags = <<pre \o parent \o <<"/">> \o lastF \o suf>>

\* A call derived two tags, with prefix and suffix, for a note three folders deep
\* whose last two folders differ.
C12_Witness ==
    /\ Called
    /\ Len(LastFolders) = 3
    /\ LastFolders[3] # LastFolders[2]
    /\ last.cfgCall.folderDepth = "2split"
    /\ last.cfgCall.tagPrefix # <<>>
    /\ last.cfgCall.tagSuffix # <<>>
    /\ Len(last.folderTags) = 2

(***************************************************************************)
(* C13.                                                                    *)
(***************************************************************************)
\* C13: for a note in exactly one folder, modes "2split" and "2single" derive
\* the one tag prefix+last+suffix, the list mode "1" derives for the same path,
\* prefix and suffix.
C13_OneFolderFallsBackToSingle ==
    (Called /\ Len(LastFolders) = 1 /\ last.cfgCall.folderDepth \in {"2split", "2single"}) =>
        /\ last.folderTags
              = <<last.cfgCall.tagPrefix \o LastFolders[1] \o last.cfgCall.tagSuffix>>
        /\ last.folderTags
              = getFolderTagsFromPath(last.after.path, [last.cfgCall EXCEPT !.folderDepth = "1"])

\* A call in mode "2single" derived one tag for a note in one folder.
C13_Witness ==
    /\ Called
    /\ Len(LastFolders) = 1
    /\ last.cfgCall.folderDepth = "2single"
    /\ Len(last.folderTags) = 1

(***************************************************************************)
(* C15.                                                                    *)
(***************************************************************************)
\* C15 as stated: the derived list holds no string twice, for every path and
\* every configuration.
C15_DerivedTagsDistinct ==
    Called => \A i, j \in 1..Len(last.folderTags) :
                  last.folderTags[i] = last.folderTags[j] => i = j

(***************************************************************************)
(* C14.                                                                    *)
(***************************************************************************)
\* C14: applyFolderTag and removeFolderTags change nothing of a note but its
\* tags property: the other properties keep their values, and the body and the
\* path are as they were, for every action and every note.
C14_OnlyTagsChange ==
    Called =>
        /\ last.after.other = last.before.other
        /\ last.after.body = last.before.body
        /\ last.after.path = last.before.path
        /\ last.after.malformed = last.before.malformed
        /\ last.outcome # "written" => last.after = last.before

\* removeFolderTags changed the tags of a note that has other properties and an
\* inline tags line in its body.
C14_Witness ==
    /\ Removed
    /\ last.before.other = OtherKeys
    /\ last.before.body = InlineBody
    /\ last.after.tags # last.before.tags
    /\ last.after.tags.kind = "list"

(***************************************************************************)
(* C16.                                                                    *)
(***************************************************************************)
\* C16 as stated: in one move reconciliation the stale tags removed are those
\* of the old path under the configuration the new tags were derived from, also
\* when a settings change comes while the call waits for processFrontMatter.
C16_StaleTagsOfSameConfiguration ==
    (Applied /\ last.action = "move")
        => last.oldTags = getFolderTagsFromPath(last.oldPath, last.cfgCall)

(***************************************************************************)
(* C17.                                                                    *)
(***************************************************************************)
\* removeFolderTags has written the note that applyFolderTag, on create, wrote
\* just before it, with the same derived tags, and the note's list held none of
\* them before the two calls.
AppliedThenRemoved ==
    /\ Removed
    /\ last.prev.op = "apply"
    /\ last.prev.action = "create"
    /\ last.prev.outcome = "written"
    /\ last.prev.file = last.file
    /\ last.prev.after = last.before
    /\ last.prev.folderTags = last.folderTags
    /\ last.prev.cfgDone = last.cfgCall
    /\ last.cfgDone = last.cfgCall
    /\ \A t \in SeqRange(last.folderTags) : Occurrences(WrittenEntries(last.prev.before), t) = 0

\* C17 as stated: applyFolderTag on create followed by removeFolderTags, under
\* the same path and configuration, gives back the tag list the note had, and an
\* absent tags key when the note had no tags.
C17_ApplyThenRemoveRoundTrip ==
    AppliedThenRemoved =>
        /\ WrittenEntries(last.after) = WrittenEntries(last.prev.before)
        /\ last.prev.before.tags.kind = "absent" => last.after.tags.kind = "absent"

====
